---- MODULE Spec2Model ----
(***************************************************************************)
(* wechat_file_manager.py: WeChatFileManager and main().                   *)
(*                                                                         *)
(* A path, a file name and a digest are strings, modelled as sequences of  *)
(* one-character strings so that clean_filename's regular expression, the  *)
(* digest prefix file_hash[:5] and the SQL pattern  str(storage_path)+'%'  *)
(* are computed character by character.  The file system is a function     *)
(* from the paths that exist to a regular file (content, mtime) or a       *)
(* symbolic link (target); the directories of the source tree are fixed    *)
(* and carry a modification time.                                          *)
(***************************************************************************)
EXTENDS Integers, Sequences, FiniteSets, TLC

\* ------------------------------------------------------------------ bounds
\* at most MaxFiles files lie in the source tree before the first run
MaxFiles == 2
\* at most MaxRuns invocations of main() with the command "run"
MaxRuns == 2
\* the number of different file contents
NumContents == 3
\* modification times and last-run times handed to the policy checks lie in
\* 0..MaxTime
MaxTime == 2
\* at most MaxArrivals changes are made to the source tree by other programs
MaxArrivals == 2
\* the file names handed to clean_filename have at most MaxNameLen characters
MaxNameLen == 7

\* ----------------------------------------------------------------- strings
IndexError == <<"IndexError">>
NoPath == <<"ENOENT">>

Digits == {"0", "1", "2", "3", "4", "5", "6", "7", "8", "9"}

MaxOf(S) == CHOOSE x \in S : \A y \in S : y <= x

\* str.rfind(ch) + 1: the last position of ch in s, 0 when there is none
LastIndex(s, ch) ==
  LET I == {i \in 1..Len(s) : s[i] = ch}
  IN  IF I = {} THEN 0 ELSE MaxOf(I)

\* Path.__truediv__
Join(dir, name) == dir \o <<"/">> \o name

\* Path.name
Name(p) == SubSeq(p, LastIndex(p, "/") + 1, Len(p))

\* Path.parent
Parent(p) == SubSeq(p, 1, LastIndex(p, "/") - 1)

\* p lies below directory dir (a whole path component, as rglob and mkdir see it)
Under(p, dir) ==
  /\ Len(p) > Len(dir) + 1
  /\ SubSeq(p, 1, Len(dir) + 1) = dir \o <<"/">>

\* ------------------------------------------------------------ configuration
\* config['paths']['storage']
storage_path == <<"/", "s">>

\* config['paths']['wechat']: an unrelated root, or one whose string starts
\* with the string of the storage root
WechatRoots == { <<"/", "w">>, <<"/", "s", "2">> }

\* config['settings']['target_folders']
target_folders == << <<"I">>, <<"V">> >>

\* config['settings']['skip_patterns']
skip_patterns == { <<"t", "m", "p">> }

\* config['settings']['min_file_size'], in MiB
MinFileSizeMB == 1

min_file_size == MinFileSizeMB * 1024 * 1024

\* -------------------------------------------------------------- file contents
\* The byte contents a file can have, by number.  Content 1 is one byte short
\* of min_file_size, content 2 has exactly min_file_size bytes.
Contents == 1..NumContents

Size(c) == min_file_size + c - 2

HexChars == <<"0", "1", "2", "3", "4", "5", "6", "7", "8", "9",
              "a", "b", "c", "d", "e", "f">>

\* hashlib.md5(bytes).hexdigest(), shortened to 6 of its 32 characters: an
\* injective table.  Contents 1 to 3 have digests with the same first 5
\* characters, as different files can; content 4 does not share them.
Md5Hex(c) == <<HexChars[(c \div 4) + 1], "b", "c", "d", "e", HexChars[c + 1]>>

\* calculate_md5 of a file holding content c
calculate_md5(c) == Md5Hex(c)

\* ------------------------------------------------------------- clean_filename
\* re.sub(r' \(\d+\)(?=\.[^.]+$)', '', filename): the lookahead ties the match
\* to the last dot d of the name, which must be followed by at least one
\* character; the match is " (", one or more digits, ")" ending right before d.
StripCounter(filename) ==
  LET d      == LastIndex(filename, ".")
      NonDig == {i \in 1..(d - 2) : filename[i] \notin Digits}
      k      == IF NonDig = {} THEN 0 ELSE MaxOf(NonDig)
  IN  IF /\ d >= 5
         /\ d < Len(filename)
         /\ filename[d - 1] = ")"
         /\ k >= 2
         /\ k <= d - 3
         /\ filename[k] = "("
         /\ filename[k - 1] = " "
      THEN SubSeq(filename, 1, k - 2) \o SubSeq(filename, d, Len(filename))
      ELSE filename

\* file_hash in place of file_hash[:5]
HashWhole(file_hash) == file_hash

\* file_hash[:5]
HashPrefix(file_hash) ==
  SubSeq(file_hash, 1, IF Len(file_hash) < 5 THEN Len(file_hash) ELSE 5)

\* clean_filename: name_parts = base_name.rsplit('.', 1); name_parts[1] raises
\* IndexError when base_name holds no dot
clean_filename(filename, file_hash) ==
  LET base_name == StripCounter(filename)
      d         == LastIndex(base_name, ".")
  IN  IF d = 0
      THEN IndexError
      ELSE SubSeq(base_name, 1, d - 1) \o <<"_">> \o HashPrefix(file_hash)
             \o <<".">> \o SubSeq(base_name, d + 1, Len(base_name))

\* --------------------------------------------------------------- SQL LIKE
\* SQLite's LIKE compares ASCII letters without regard to case
Fold(ch) ==
  CASE ch = "I" -> "i"
    [] ch = "V" -> "v"
    [] ch = "R" -> "r"
    [] OTHER    -> ch

\* value LIKE prefix || '%', for a prefix that holds no '%': every character
\* of the prefix matches the character at its place, '_' matching any
LikePrefix(value, prefix) ==
  /\ Len(value) >= Len(prefix)
  /\ \A i \in 1..Len(prefix) :
        \/ prefix[i] = "_"
        \/ Fold(prefix[i]) = Fold(value[i])

\* pattern in file_path.name
Contains(s, pattern) ==
  \E i \in 0..(Len(s) - Len(pattern)) :
     SubSeq(s, i + 1, i + Len(pattern)) = pattern

\* ------------------------------------------------------------- file system
RegularFile(c, m) == [kind |-> "file", content |-> c, mtime |-> m, target |-> <<>>]
SymLink(t)        == [kind |-> "link", content |-> 0, mtime |-> 0, target |-> t]

\* the path a chain of symbolic links starting at p ends at, NoPath when the
\* chain dangles or does not end (ELOOP)
RECURSIVE ResolveN(_, _, _)
ResolveN(f, p, n) ==
  IF p \notin DOMAIN f THEN NoPath
  ELSE IF f[p].kind = "file" THEN p
  ELSE IF n = 0 THEN NoPath
  ELSE ResolveN(f, f[p].target, n - 1)

Resolve(f, p) == ResolveN(f, p, Cardinality(DOMAIN f))

\* Path.exists(): follows links
exists(f, p) == Resolve(f, p) # NoPath

\* Path.is_file(): follows links; every resolved entry is a regular file
is_file(f, p) == Resolve(f, p) # NoPath

\* Path.is_symlink()
is_symlink(f, p) == p \in DOMAIN f /\ f[p].kind = "link"

\* the content read through p
ContentAt(f, p) == f[Resolve(f, p)].content

Remove(f, p) == [q \in DOMAIN f \ {p} |-> f[q]]

Put(f, p, e) == [q \in DOMAIN f \cup {p} |-> IF q = p THEN e ELSE f[q]]

\* shutil.move(src, dst) onto a file path: os.rename, which replaces dst
shutil_move(f, src, dst) == Put(Remove(f, src), dst, f[src])

\* shutil.copy2(src, dst): the content and the mtime of the file src resolves to
shutil_copy2(f, src, dst) == Put(f, dst, f[Resolve(f, src)])

\* the source tree below wechat_path wp: two user directories, the first with
\* both target folders and a nested directory, the second with one
U1 == <<"1">>
U2 == <<"2">>

UserDirs(wp) == { Join(wp, U1), Join(wp, U2) }

SourceDirs(wp) ==
  UserDirs(wp) \cup
  { Join(Join(wp, U1), target_folders[1]),
    Join(Join(Join(wp, U1), target_folders[1]), <<"d">>),
    Join(Join(wp, U1), target_folders[2]),
    Join(Join(wp, U2), target_folders[1]) }

\* the places a file can lie at before the first run
SourceSlots(wp) ==
  { Join(Join(Join(wp, U1), target_folders[1]), <<"a", ".", "j">>),
    Join(Join(Join(wp, U2), target_folders[1]), <<"a", " ", "(", "2", ")", ".", "j">>),
    Join(Join(Join(Join(wp, U1), target_folders[1]), <<"d">>), <<"b", ".", "j">>),
    Join(Join(Join(wp, U1), target_folders[2]), <<"a", ".", "j">>),
    Join(Join(Join(wp, U2), target_folders[1]), <<"R">>) }

\* ---------------------------------------------------------------- state
VARIABLES
  wechat_path,         \* config['paths']['wechat']
  preserve_originals,  \* config['settings']['preserve_originals']
  fs,                  \* the files and links on disk
  dmtime,              \* st_mtime of the source directories
  db,                  \* the rows of table file_hashes, key (hash, file_path)
  cfg_last_run,        \* config['state']['last_run'] in the YAML file: {} or {t}
  last_run,            \* self.last_run
  now,                 \* the clock
  pc,                  \* where main() stands
  runs,                \* invocations of main() so far
  user_dirs,           \* user directories process_files still has to visit
  user_dir,            \* the user directory being visited
  ti,                  \* index into target_folders
  todo,                \* entries of target_dir.rglob('*') still to come
  file_path,           \* the file being processed
  file_hash,           \* its digest
  new_path,            \* its destination
  done,                \* source paths this run has processed to the end
  ops,                 \* moves and copies this run has performed
  finished,            \* process_files returned in the latest run
  prev_ok,             \* process_files returned in the run before this one
  prev_db,             \* db when this run started
  orig,                \* the source tree before the first run
  call,                \* a policy or naming function called on its own:
                       \* the function, its arguments and what it returned
  arrivals,            \* changes other programs have made to the source tree
  late                 \* <<p, r>>: file p arrived during run r, after its
                       \* target folder had been scanned

vars == <<wechat_path, preserve_originals, fs, dmtime, db, cfg_last_run,
          last_run, now, pc, runs, user_dirs, user_dir, ti, todo,
          file_path, file_hash, new_path, done, ops, finished, prev_ok,
          prev_db, orig, call, arrivals, late>>

config == <<wechat_path, preserve_originals, orig>>
cursor == <<user_dirs, user_dir, ti, todo>>
locals == <<file_path, file_hash, new_path>>
history == <<finished, prev_ok, prev_db>>
aside == <<call, arrivals, late>>

\* no function has been called on its own
NoCall == [fn |-> "", arg |-> <<>>, ret |-> <<>>]

RunningPcs == {"process_files", "users", "files", "relink",
               "symlink", "save", "update"}

\* the file systems a first run can find: at most MaxFiles regular files
InitialTrees(wp) ==
  UNION { [S -> {RegularFile(c, 0) : c \in Contents}] :
            S \in {T \in SUBSET SourceSlots(wp) : Cardinality(T) <= MaxFiles} }

Init ==
  /\ wechat_path \in WechatRoots
  /\ preserve_originals \in BOOLEAN
  /\ fs \in InitialTrees(wechat_path)
  /\ orig = fs
  /\ dmtime = [d \in SourceDirs(wechat_path) |-> 0]
  /\ db = {}
  /\ cfg_last_run = {}
  /\ last_run = {}
  /\ now = 0
  /\ pc = "idle"
  /\ runs = 0
  /\ user_dirs = {}
  /\ user_dir = <<>>
  /\ ti = 0
  /\ todo = {}
  /\ file_path = <<>>
  /\ file_hash = <<>>
  /\ new_path = <<>>
  /\ done = {}
  /\ ops = 0
  /\ finished = FALSE
  /\ prev_ok = FALSE
  /\ prev_db = {}
  /\ call = NoCall
  /\ arrivals = 0
  /\ late = {}

\* -------------------------------------------------------- the policy checks
\* a directory of the model exists
DirExists(d) == d \in DOMAIN dmtime

\* config['state']['last_run'] is absent or empty ({}), the ISO string of a
\* time t >= 0 ({t}), or a string datetime.fromisoformat rejects
Malformed == -1

\* line 108 with >= for >
should_process_directory_ge(dir_path) ==
  IF last_run = {}
  THEN TRUE
  ELSE IF ~DirExists(dir_path) \/ Malformed \in last_run
       THEN TRUE
       ELSE \E t \in last_run : dmtime[dir_path] >= t

\* lines 109-110 returning False
should_process_directory_closed(dir_path) ==
  IF last_run = {}
  THEN TRUE
  ELSE IF ~DirExists(dir_path) \/ Malformed \in last_run
       THEN FALSE
       ELSE \E t \in last_run : dmtime[dir_path] > t

\* lines 106-108 reading the mtimes of the directories below dir_path too
should_process_directory_deep(dir_path) ==
  IF last_run = {}
  THEN TRUE
  ELSE IF ~DirExists(dir_path) \/ Malformed \in last_run
       THEN TRUE
       ELSE \E t \in last_run : \E d \in DOMAIN dmtime :
              (d = dir_path \/ Under(d, dir_path)) /\ dmtime[d] > t

\* should_process_directory, lines 103-110: stat() raises for a path that does
\* not exist and fromisoformat for a malformed string; the bare except of line
\* 109 turns either into True
should_process_directory(dir_path) ==
  IF last_run = {}
  THEN TRUE
  ELSE IF ~DirExists(dir_path) \/ Malformed \in last_run
       THEN TRUE
       ELSE \E t \in last_run : dmtime[dir_path] > t

\* line 116 with <= for <
should_process_file_le(p) ==
  IF ~exists(fs, p)
  THEN TRUE
  ELSE IF Size(ContentAt(fs, p)) <= min_file_size
       THEN FALSE
       ELSE \A pattern \in skip_patterns : ~Contains(Name(p), pattern)

\* should_process_file, lines 113-126: stat() follows links and raises for a
\* path that resolves to nothing; the bare except of line 125 turns that into
\* True
should_process_file(p) ==
  IF ~exists(fs, p)
  THEN TRUE
  ELSE IF Size(ContentAt(fs, p)) < min_file_size
       THEN FALSE
       ELSE \A pattern \in skip_patterns : ~Contains(Name(p), pattern)

\* line 155 without "not file_path.is_symlink()"
EligibleLinksToo(p) ==
  /\ is_file(fs, p)
  /\ should_process_file(p)

\* line 155
Eligible(p) ==
  /\ is_file(fs, p)
  /\ ~is_symlink(fs, p)
  /\ should_process_file(p)

\* target_dir.rglob('*'): the files and links below target_dir
rglob(target_dir) == { p \in DOMAIN fs : Under(p, target_dir) }

\* the directory entry of p changed: its parent's mtime is the clock
Touch(p) ==
  IF Parent(p) \in DOMAIN dmtime
  THEN [dmtime EXCEPT ![Parent(p)] = now + 1]
  ELSE dmtime

\* the target folder a source path lies in
CategoryOf(p) ==
  CHOOSE i \in 1..Len(target_folders) :
    \E u \in UserDirs(wechat_path) : Under(p, Join(u, target_folders[i]))

\* ------------------------------------------------------------------ main
\* main(), lines 199-205: WeChatFileManager(config_path) reads the
\* configuration, last_run included (line 49)
Construct ==
  /\ pc \in {"idle", "done", "aborted", "stopped"}
  /\ runs < MaxRuns
  /\ runs' = runs + 1
  /\ last_run' = cfg_last_run
  /\ pc' = "process_files"
  /\ done' = {}
  /\ ops' = 0
  /\ prev_ok' = finished
  /\ prev_db' = db
  /\ finished' = FALSE
  /\ UNCHANGED <<config, aside, fs, dmtime, db, cfg_last_run, now, cursor, locals>>

\* process_files, lines 136-139
ListUserDirs ==
  /\ pc = "process_files"
  /\ user_dirs' = UserDirs(wechat_path)
  /\ pc' = "users"
  /\ UNCHANGED <<config, aside, fs, dmtime, db, cfg_last_run, last_run, now, runs,
                 user_dir, ti, todo, locals, done, ops, history>>

\* lines 146-149: the first target folder at or after index i whose directory
\* under user directory u exists and passes should_process_directory; 0 when
\* the loop of line 146 ends without one
FirstTarget(u, i) ==
  LET J == { j \in i..Len(target_folders) :
               /\ DirExists(Join(u, target_folders[j]))
               /\ should_process_directory(Join(u, target_folders[j])) }
  IN  IF J = {} THEN 0 ELSE CHOOSE j \in J : \A k \in J : j <= k

\* lines 142-154: the next user directory, in the order iterdir() gave, up to
\* the rglob of its first target folder
NextUser ==
  /\ pc = "users"
  /\ \E u \in user_dirs :
       /\ user_dirs' = user_dirs \ {u}
       /\ IF should_process_directory(u) /\ FirstTarget(u, 1) # 0
          THEN /\ user_dir' = u
               /\ ti' = FirstTarget(u, 1)
               /\ todo' = rglob(Join(u, target_folders[FirstTarget(u, 1)]))
               /\ pc' = "files"
          ELSE UNCHANGED <<user_dir, ti, todo, pc>>
  /\ UNCHANGED <<config, aside, fs, dmtime, db, cfg_last_run, last_run, now, runs,
                 locals, done, ops, history>>

\* the loop of line 142 is over: process_files returns to main
ProcessFilesReturn ==
  /\ pc = "users"
  /\ user_dirs = {}
  /\ pc' = "update"
  /\ finished' = TRUE
  /\ user_dir' = <<>>
  /\ ti' = 0
  /\ UNCHANGED <<config, aside, fs, dmtime, db, cfg_last_run, last_run, now, runs,
                 user_dirs, todo, locals, done, ops, prev_ok, prev_db>>

\* the loop of line 154 is over: lines 146-154 for the next target folder, or
\* back to line 142
EndTarget ==
  /\ pc = "files"
  /\ todo = {}
  /\ IF FirstTarget(user_dir, ti + 1) # 0
     THEN /\ ti' = FirstTarget(user_dir, ti + 1)
          /\ todo' = rglob(Join(user_dir, target_folders[FirstTarget(user_dir, ti + 1)]))
          /\ UNCHANGED pc
     ELSE /\ pc' = "users"
          /\ UNCHANGED <<ti, todo>>
  /\ UNCHANGED <<config, aside, fs, dmtime, db, cfg_last_run, last_run, now, runs,
                 user_dirs, user_dir, locals, done, ops, history>>

\* line 155 is false: a link, or a file should_process_file rejects
SkipFile ==
  /\ pc = "files"
  /\ \E p \in todo :
       /\ ~Eligible(p)
       /\ todo' = todo \ {p}
  /\ UNCHANGED <<config, aside, fs, dmtime, db, cfg_last_run, last_run, now, pc, runs,
                 user_dirs, user_dir, ti, locals, done, ops, history>>

\* the pattern of the SELECT in lines 159-160
LookupPattern == storage_path

\* lines 159-161 without the condition hash = ?
LookupAnyHash(h) ==
  { r.file_path : r \in { x \in db : LikePrefix(x.file_path, LookupPattern) } }

\* lines 159-161: the paths of the rows the SELECT matches; fetchone() gives
\* one of them
Lookup(h) ==
  { r.file_path : r \in { x \in db : x.hash = h /\ LikePrefix(x.file_path, LookupPattern) } }

\* line 173 without its condition: the link is made in either mode
AfterStoreAlwaysLink == "relink"

\* lines 173-176 left out: the row is written with no link made
AfterStoreNeverLink == "save"

\* after lines 163-171: line 173 skips the link in preserve mode
AfterStore == IF preserve_originals THEN "save" ELSE "relink"

\* lines 155-164: a row is found, its path is the destination
ProcessFileReuse ==
  /\ pc = "files"
  /\ \E p \in todo :
       /\ Eligible(p)
       /\ \E stored_file \in Lookup(calculate_md5(ContentAt(fs, p))) :
            /\ todo' = todo \ {p}
            /\ file_path' = p
            /\ file_hash' = calculate_md5(ContentAt(fs, p))
            /\ new_path' = stored_file
  /\ pc' = AfterStore
  /\ UNCHANGED <<config, aside, fs, dmtime, db, cfg_last_run, last_run, now, runs,
                 user_dirs, user_dir, ti, done, ops, history>>

\* lines 155-171: no row is found, the file is moved or copied to storage
ProcessFileStore ==
  /\ pc = "files"
  /\ \E p \in todo :
       LET h          == calculate_md5(ContentAt(fs, p))
           clean_name == clean_filename(Name(p), h)
           dst        == Join(Join(storage_path, target_folders[ti]), clean_name)
       IN  /\ Eligible(p)
           /\ Lookup(h) = {}
           /\ clean_name # IndexError
           /\ todo' = todo \ {p}
           /\ file_path' = p
           /\ file_hash' = h
           /\ new_path' = dst
           /\ IF preserve_originals
              THEN fs' = shutil_copy2(fs, p, dst) /\ UNCHANGED dmtime
              ELSE fs' = shutil_move(fs, p, dst) /\ dmtime' = Touch(p)
  /\ ops' = ops + 1
  /\ now' = now + 1
  /\ pc' = AfterStore
  /\ UNCHANGED <<config, aside, db, cfg_last_run, last_run, runs, user_dirs,
                 user_dir, ti, done, history>>

\* main() with update_last_run in a finally clause: the timestamp is written
\* although process_files raised
RaiseAfterUpdate ==
  /\ pc' = "aborted"
  /\ cfg_last_run' = {now + 1}
  /\ now' = now + 1
  /\ user_dirs' = {}
  /\ user_dir' = <<>>
  /\ ti' = 0
  /\ todo' = {}
  /\ file_path' = <<>>
  /\ file_hash' = <<>>
  /\ new_path' = <<>>
  /\ UNCHANGED <<config, aside, fs, dmtime, db, last_run, runs, done, ops, history>>

\* what an exception raised inside process_files does: nothing catches it,
\* main() ends with the traceback and line 207 is not reached
Raise ==
  /\ pc' = "aborted"
  /\ user_dirs' = {}
  /\ user_dir' = <<>>
  /\ ti' = 0
  /\ todo' = {}
  /\ file_path' = <<>>
  /\ file_hash' = <<>>
  /\ new_path' = <<>>
  /\ UNCHANGED <<config, aside, fs, dmtime, db, cfg_last_run, last_run, now, runs,
                 done, ops, history>>

\* lines 155-166: no row is found and clean_filename raises IndexError
ProcessFileRaise ==
  /\ pc = "files"
  /\ \E p \in todo :
       /\ Eligible(p)
       /\ Lookup(calculate_md5(ContentAt(fs, p))) = {}
       /\ clean_filename(Name(p), calculate_md5(ContentAt(fs, p))) = IndexError
  /\ Raise

\* lines 173-175: the original is still there (the destination was reused)
Unlink ==
  /\ pc = "relink"
  /\ exists(fs, file_path)
  /\ fs' = Remove(fs, file_path)
  /\ dmtime' = Touch(file_path)
  /\ now' = now + 1
  /\ pc' = "symlink"
  /\ UNCHANGED <<config, aside, db, cfg_last_run, last_run, runs, cursor,
                 locals, done, ops, history>>

\* line 176: os.symlink(new_path, file_path)
Symlink ==
  /\ \/ pc = "symlink"
     \/ pc = "relink" /\ ~exists(fs, file_path)
  /\ file_path \notin DOMAIN fs
  /\ fs' = Put(fs, file_path, SymLink(new_path))
  /\ dmtime' = Touch(file_path)
  /\ now' = now + 1
  /\ pc' = "save"
  /\ UNCHANGED <<config, aside, db, cfg_last_run, last_run, runs, cursor,
                 locals, done, ops, history>>

\* line 178 handing new_path to save_file_hash
SavedStoragePath == new_path

\* the path line 178 hands to save_file_hash
SavedPath == file_path

\* the table with PRIMARY KEY (hash) in line 74
UpsertByHash(rows, h, p, m) ==
  { r \in rows : r.hash # h }
    \cup { [hash |-> h, file_path |-> p, mtime |-> m] }

\* INSERT OR REPLACE on the key (hash, file_path), lines 87-90
Upsert(rows, h, p, m) ==
  { r \in rows : ~(r.hash = h /\ r.file_path = p) }
    \cup { [hash |-> h, file_path |-> p, mtime |-> m] }

\* line 178, save_file_hash (lines 84-91): stat() follows the link and raises
\* FileNotFoundError when the path resolves to nothing; the row is committed
\* at once
Save ==
  /\ pc = "save"
  /\ IF exists(fs, SavedPath)
     THEN /\ db' = Upsert(db, file_hash, SavedPath, fs[Resolve(fs, SavedPath)].mtime)
          /\ done' = done \cup {file_path}
          /\ pc' = "files"
          /\ file_path' = <<>>
          /\ file_hash' = <<>>
          /\ new_path' = <<>>
          /\ UNCHANGED <<config, aside, fs, dmtime, cfg_last_run, last_run, now, runs,
                         cursor, ops, history>>
     ELSE Raise

\* main(), line 207: update_last_run (lines 180-186)
update_last_run ==
  /\ pc = "update"
  /\ cfg_last_run' = {now + 1}
  /\ now' = now + 1
  /\ pc' = "done"
  /\ UNCHANGED <<config, aside, fs, dmtime, db, last_run, runs, cursor,
                 locals, done, ops, history>>

\* a handler that makes the pending link before the process ends
CrashFinishesLink ==
  /\ pc \in RunningPcs
  /\ pc' = "stopped"
  /\ IF pc \in {"relink", "symlink"} /\ file_path \notin DOMAIN fs
     THEN fs' = Put(fs, file_path, SymLink(new_path))
     ELSE fs' = fs
  /\ user_dirs' = {}
  /\ user_dir' = <<>>
  /\ ti' = 0
  /\ todo' = {}
  /\ file_path' = <<>>
  /\ file_hash' = <<>>
  /\ new_path' = <<>>
  /\ UNCHANGED <<config, aside, dmtime, db, cfg_last_run, last_run, now, runs,
                 done, ops, history>>

\* the process is killed between two steps
Crash ==
  /\ pc \in RunningPcs
  /\ pc' = "stopped"
  /\ user_dirs' = {}
  /\ user_dir' = <<>>
  /\ ti' = 0
  /\ todo' = {}
  /\ file_path' = <<>>
  /\ file_hash' = <<>>
  /\ new_path' = <<>>
  /\ UNCHANGED <<config, aside, fs, dmtime, db, cfg_last_run, last_run, now, runs,
                 done, ops, history>>

Next ==
  \/ Construct
  \/ ListUserDirs
  \/ NextUser
  \/ ProcessFilesReturn
  \/ EndTarget
  \/ SkipFile
  \/ ProcessFileReuse
  \/ ProcessFileStore
  \/ ProcessFileRaise
  \/ Unlink
  \/ Symlink
  \/ Save
  \/ update_last_run
  \/ Crash

Spec == Init /\ [][Next]_vars

\* ------------------------------------------ the policy checks on their own
\* process_files has no work in hand
NoWork ==
  /\ user_dirs = {}
  /\ user_dir = <<>>
  /\ ti = 0
  /\ todo = {}
  /\ file_path = <<>>
  /\ file_hash = <<>>
  /\ new_path = <<>>
  /\ done = {}
  /\ ops = 0
  /\ finished = FALSE
  /\ prev_ok = FALSE
  /\ prev_db = {}

\* everything but call
program == <<config, fs, dmtime, db, cfg_last_run, last_run, now, pc, runs,
             cursor, locals, done, ops, history>>

\* file names with and without a skip pattern in them
PolicyNames ==
  { <<"a", ".", "j">>, <<"t", "m", "p", ".", "j">>,
    <<"a", "t", "m", "p">>, <<"t", "m", ".", "p">> }

PolicyFiles(wp) ==
  { Join(Join(Join(wp, U1), target_folders[1]), n) : n \in PolicyNames }

\* at most one file, of any content
PolicyTrees(wp) ==
  UNION { [S -> {RegularFile(c, 0) : c \in Contents}] :
            S \in {T \in SUBSET PolicyFiles(wp) : Cardinality(T) <= 1} }

\* one directory has any modification time
DirMtimes(wp) ==
  { [d \in SourceDirs(wp) |-> IF d = x THEN m ELSE 0] :
      x \in SourceDirs(wp), m \in 0..MaxTime }

\* the values config['state']['last_run'] can hold when line 49 reads it
LastRunValues == {{}, {Malformed}} \cup {{t} : t \in 0..MaxTime}

\* a directory that does not exist
MissingDir(wp) == Join(wp, <<"9">>)

\* a manager just constructed (lines 34-56) from any configuration, over any
\* tree
InitPolicy ==
  /\ wechat_path \in WechatRoots
  /\ preserve_originals = FALSE
  /\ fs \in PolicyTrees(wechat_path)
  /\ orig = fs
  /\ dmtime \in DirMtimes(wechat_path)
  /\ db = {}
  /\ cfg_last_run \in LastRunValues
  /\ last_run = cfg_last_run
  /\ now = MaxTime
  /\ pc = "process_files"
  /\ runs = 1
  /\ NoWork
  /\ call = NoCall
  /\ arrivals = 0
  /\ late = {}

\* manager.should_process_directory(d)
CallShouldProcessDirectory ==
  /\ call = NoCall
  /\ \E d \in SourceDirs(wechat_path) \cup {MissingDir(wechat_path)} :
       call' = [fn |-> "should_process_directory", arg |-> d,
                ret |-> should_process_directory(d)]
  /\ UNCHANGED <<program, arrivals, late>>

\* manager.should_process_file(p)
CallShouldProcessFile ==
  /\ call = NoCall
  /\ \E p \in PolicyFiles(wechat_path) :
       call' = [fn |-> "should_process_file", arg |-> p,
                ret |-> should_process_file(p)]
  /\ UNCHANGED <<program, arrivals, late>>

NextPolicy ==
  \/ CallShouldProcessDirectory
  \/ CallShouldProcessFile

SpecPolicy == InitPolicy /\ [][NextPolicy]_vars

\* ------------------------------------- runs while other programs add files
\* the places another program puts a file at
OpenSlots(wp) ==
  { Join(Join(Join(wp, U1), target_folders[1]), <<"a", ".", "j">>),
    Join(Join(Join(Join(wp, U1), target_folders[1]), <<"d">>), <<"b", ".", "j">>),
    Join(Join(Join(wp, U2), target_folders[1]), <<"a", " ", "(", "2", ")", ".", "j">>) }

\* the files that arrive are one byte short of min_file_size or have exactly
\* min_file_size bytes
ArrivalContents == {1, 2}

\* the user directory and the index in target_folders of the target folder
\* source path p lies below
UserOf(p) == CHOOSE u \in UserDirs(wechat_path) : Under(p, u)

TargetOf(p) == Join(UserOf(p), target_folders[CategoryOf(p)])

\* the loop of line 154 is running over the target folder p lies below
Iterating(p) ==
  /\ pc \in {"files", "relink", "symlink", "save"}
  /\ user_dir = UserOf(p)
  /\ ti = CategoryOf(p)

\* the loops of lines 142 and 146 are past the target folder p lies below
Passed(p) ==
  \/ pc = "update"
  \/ /\ pc \in {"users", "files", "relink", "symlink", "save"}
     /\ UserOf(p) \notin user_dirs
     /\ \/ pc = "users"
        \/ user_dir # UserOf(p)
        \/ ti > CategoryOf(p)

\* a fresh installation: no file yet, no last run
InitOpen ==
  /\ wechat_path \in WechatRoots
  /\ preserve_originals \in BOOLEAN
  /\ fs = [p \in {} |-> RegularFile(1, 0)]
  /\ orig = fs
  /\ dmtime = [d \in SourceDirs(wechat_path) |-> 0]
  /\ db = {}
  /\ cfg_last_run = {}
  /\ last_run = {}
  /\ now = 0
  /\ pc = "idle"
  /\ runs = 0
  /\ NoWork
  /\ call = NoCall
  /\ arrivals = 0
  /\ late = {}

\* another program writes a file to p, in a folder line 154 is not running
\* over, replacing what was there; the folder's mtime is the clock
Arrive ==
  /\ arrivals < MaxArrivals
  /\ \E p \in OpenSlots(wechat_path) : \E c \in ArrivalContents :
       /\ ~Iterating(p)
       /\ fs' = Put(fs, p, RegularFile(c, now + 1))
       /\ dmtime' = Touch(p)
       /\ late' = IF Passed(p) /\ Parent(p) = TargetOf(p)
                  THEN late \cup {<<p, runs>>}
                  ELSE late
  /\ arrivals' = arrivals + 1
  /\ now' = now + 1
  /\ UNCHANGED <<config, call, db, cfg_last_run, last_run, pc, runs, cursor,
                 locals, done, ops, history>>

\* another program adds or removes an entry of a user directory
BumpDir ==
  /\ arrivals < MaxArrivals
  /\ \E u \in UserDirs(wechat_path) : dmtime' = [dmtime EXCEPT ![u] = now + 1]
  /\ arrivals' = arrivals + 1
  /\ now' = now + 1
  /\ UNCHANGED <<config, call, late, fs, db, cfg_last_run, last_run, pc, runs,
                 cursor, locals, done, ops, history>>

\* line 185: open(self.config_path, 'w') raises, nothing is written
UpdateRaises ==
  /\ pc = "update"
  /\ Raise

NextOpen ==
  \/ UpdateRaises
  \/ Construct
  \/ ListUserDirs
  \/ NextUser
  \/ ProcessFilesReturn
  \/ EndTarget
  \/ SkipFile
  \/ ProcessFileReuse
  \/ ProcessFileStore
  \/ Unlink
  \/ Symlink
  \/ Save
  \/ update_last_run
  \/ Arrive
  \/ BumpDir

SpecOpen == InitOpen /\ [][NextOpen]_vars

\* ---------------------------------------------- clean_filename on its own
\* a letter, and the characters the pattern of line 131 is made of
NameChars == {"a", " ", "(", "2", ")", "."}

\* the file names of n characters
Names(n) == [1..n -> NameChars]

\* hexdigest() strings, one of them cut to 10 characters
NameDigests ==
  { Md5Hex(1), <<"a", "b", "c", "d", "e", "f", "0", "1", "2", "3">> }

\* no manager has been constructed yet; the digest of a file is at hand
InitNames ==
  /\ wechat_path = <<"/", "w">>
  /\ preserve_originals = FALSE
  /\ fs = [p \in {} |-> RegularFile(1, 0)]
  /\ orig = fs
  /\ dmtime = [d \in SourceDirs(wechat_path) |-> 0]
  /\ db = {}
  /\ cfg_last_run = {}
  /\ last_run = {}
  /\ now = 0
  /\ pc = "idle"
  /\ runs = 0
  /\ NoWork
  /\ call \in { [fn |-> "", arg |-> h, ret |-> <<>>] : h \in NameDigests }
  /\ arrivals = 0
  /\ late = {}

\* manager.clean_filename(filename, file_hash)
CallCleanFilename ==
  /\ call.fn = ""
  /\ \E n \in 0..MaxNameLen : \E filename \in Names(n) :
       call' = [fn |-> "clean_filename", arg |-> <<filename, call.arg>>,
                ret |-> clean_filename(filename, call.arg)]
  /\ UNCHANGED <<program, arrivals, late>>

NextNames == CallCleanFilename

SpecNames == InitNames /\ [][NextNames]_vars

\* ------------------------------------------------------- terms of the claims
IsSource(p) == Under(p, wechat_path)

InStorage(p) == Under(p, storage_path)

\* the regular files under the storage root
StorageObjects == { p \in DOMAIN fs : InStorage(p) /\ fs[p].kind = "file" }

\* the digest of the bytes source file p had before the first run
OrigDigest(p) == calculate_md5(orig[p].content)

\* the storage path lines 166-167 give source file p
StorageNameOf(p) ==
  Join(Join(storage_path, target_folders[CategoryOf(p)]),
       clean_filename(Name(p), OrigDigest(p)))

\* the source files a run has recorded in the index
Processed == { p \in DOMAIN orig : \E r \in db : r.file_path = p }

\* the source files should_process_file accepts
BigEnough == { p \in DOMAIN orig : Size(orig[p].content) >= min_file_size }

\* no two source files of different content are given the same storage path
NoNameClash ==
  \A p \in BigEnough : \A q \in BigEnough :
     orig[p].content # orig[q].content => StorageNameOf(p) # StorageNameOf(q)

RunComplete == pc \in {"update", "done"}

\* ------------------------------------------------------------------ claims

\* C1: two eligible source files with the same bytes, processed in the same
\* run in the same target category in non-preserve mode, whatever their base
\* names, both end up as links resolving to the same StorageObject, and that
\* is the only StorageObject of the category holding the content.
C1_Dedup ==
  (RunComplete /\ ~preserve_originals) =>
    \A p \in done : \A q \in done :
       (CategoryOf(p) = CategoryOf(q) /\ orig[p].content = orig[q].content) =>
          /\ is_symlink(fs, p)
          /\ is_symlink(fs, q)
          /\ Resolve(fs, p) = Resolve(fs, q)
          /\ Resolve(fs, p) \in StorageObjects
          /\ Cardinality({ o \in StorageObjects :
                 /\ Under(o, Join(storage_path, target_folders[CategoryOf(p)]))
                 /\ fs[o].content = orig[p].content }) = 1

\* C2: when process_files has returned in one run and nothing else touched the
\* disk, the next run performs no move and no copy and ends with the same
\* index rows, in either mode, whether or not it enters the directories.
C2_Idempotence ==
  (prev_ok /\ pc \in RunningPcs \cup {"done"}) =>
     /\ ops = 0
     /\ RunComplete => db = prev_db

\* C3: in non-preserve mode every processed source path is a link through
\* which the bytes the file had before consolidation are read, also after
\* later files have been processed.
C3_ContentEquivalence ==
  ~preserve_originals =>
    \A p \in Processed :
       /\ exists(fs, p)
       /\ calculate_md5(ContentAt(fs, p)) = OrigDigest(p)

\* C3 as amended: the same, when no two source files of different content are
\* given the same storage path.
C3_ContentEquivalenceNoClash == C3_ContentEquivalence \/ ~NoNameClash

C3_Witness ==
  /\ NoNameClash
  /\ ~preserve_originals
  /\ pc = "done"
  /\ \E p \in Processed : \E q \in Processed :
       /\ orig[p].content # orig[q].content
       /\ CategoryOf(p) = CategoryOf(q)
       /\ is_symlink(fs, p)
       /\ is_symlink(fs, q)

\* C4: once a file has been processed, the index holds a row (digest,
\* storagePath) for the StorageObject its content went to, which is what a
\* later lookup of that digest finds.
C4_StorageRow ==
  \A p \in done :
     StorageNameOf(p) \in DOMAIN fs =>
       \E r \in db : r.file_path = StorageNameOf(p) /\ r.hash = OrigDigest(p)

\* C5: a file whose processing fails is skipped; when a run that entered every
\* directory has ended, every other eligible file has been processed.
C5_FailureIsolation ==
  (pc \in {"aborted", "update", "done"} /\ last_run = {}) =>
     \A p \in DOMAIN fs :
        ( /\ IsSource(p)
          /\ Eligible(p)
          /\ clean_filename(Name(p), calculate_md5(ContentAt(fs, p))) # IndexError )
        => p \in done

C7_LookupInStorage ==
  /\ \A r \in db :
       LikePrefix(r.file_path, LookupPattern) => r.file_path \in StorageObjects
  /\ \A p \in DOMAIN fs :
       (IsSource(p) /\ fs[p].kind = "link") => fs[p].target \in StorageObjects

\* C8: a source file of category C is only ever linked to a StorageObject in
\* the storage subtree of C.
C8_CategoryIndependence ==
  \A p \in DOMAIN fs :
     (IsSource(p) /\ fs[p].kind = "link" /\ exists(fs, p)) =>
        Under(Resolve(fs, p), Join(storage_path, target_folders[CategoryOf(p)]))

C10_RunState ==
  /\ [][ /\ last_run' # last_run =>
              (pc \notin RunningPcs /\ pc' = "process_files")
         /\ cfg_last_run' # cfg_last_run =>
              (pc = "update" /\ finished /\ pc' = "done")
         /\ pc' = "aborted" => cfg_last_run' = cfg_last_run ]_vars
  /\ [](pc = "done" => cfg_last_run = {now})

C10_Witness ==
  /\ pc = "done"
  /\ runs = 2
  /\ last_run = {}
  /\ cfg_last_run = {now}
  /\ done # {}

\* C11: should_process_directory returns true whenever there is no last-run
\* timestamp, whatever the directory's mtime; with a last-run timestamp it
\* returns true exactly when the directory's own mtime is strictly after it.
C11_IncrementalSkip ==
  (call.fn = "should_process_directory" /\ DirExists(call.arg)) =>
     /\ last_run = {} => call.ret = TRUE
     /\ \A t \in last_run :
          t # Malformed => (call.ret = TRUE <=> dmtime[call.arg] > t)

\* the directory's mtime equals last-run: not entered
C11_Witness ==
  /\ call.fn = "should_process_directory"
  /\ DirExists(call.arg)
  /\ \E t \in last_run : t # Malformed /\ t > 0 /\ dmtime[call.arg] = t
  /\ call.ret = FALSE

\* the key of an index row
KeyOf(r) == <<r.hash, r.file_path>>

\* C12: the index never loses a (digest, path) pair, never holds two rows
\* with the same pair, and a step that records a pair the index already holds
\* changes nothing but that row.
C12_IndexGrowth ==
  /\ [](\A r \in db : \A q \in db : KeyOf(r) = KeyOf(q) => r = q)
  /\ [][ /\ \A r \in db : \E q \in db' : KeyOf(q) = KeyOf(r)
         /\ \A q \in db' \ db :
              db' \ {q} = { r \in db : KeyOf(r) # KeyOf(q) } ]_vars

\* a run has recorded again a pair an earlier run recorded, with another
\* mtime
C12_Witness ==
  \E r \in prev_db : \E q \in db :
     /\ KeyOf(q) = KeyOf(r)
     /\ q.mtime # r.mtime

\* no skip pattern occurs in the name
NoSkipPattern(name) == \A pattern \in skip_patterns : ~Contains(name, pattern)

\* C13: should_process_file accepts a file of exactly min_file_size bytes and
\* rejects a file one byte smaller; a file whose name holds no skip pattern is
\* accepted exactly when its size is at least min_file_size.
C13_ThresholdBoundary ==
  (call.fn = "should_process_file" /\ exists(fs, call.arg)) =>
     LET size == Size(ContentAt(fs, call.arg))
     IN  /\ size = min_file_size - 1 => call.ret = FALSE
         /\ NoSkipPattern(Name(call.arg)) =>
               /\ size = min_file_size => call.ret = TRUE
               /\ call.ret = TRUE <=> size >= min_file_size

\* a file of exactly min_file_size bytes is accepted
C13_Witness ==
  /\ call.fn = "should_process_file"
  /\ exists(fs, call.arg)
  /\ Size(ContentAt(fs, call.arg)) = min_file_size
  /\ NoSkipPattern(Name(call.arg))
  /\ call.ret = TRUE

\* C14: should_process_directory returns true when the directory's metadata
\* cannot be read or the last-run timestamp cannot be parsed, and
\* should_process_file returns true when the file's metadata cannot be read;
\* either check returns a boolean in every case.
C14_FailOpen ==
  /\ call.fn # "" => call.ret \in BOOLEAN
  /\ ( /\ call.fn = "should_process_directory"
       /\ last_run # {}
       /\ ~DirExists(call.arg) \/ Malformed \in last_run )
     => call.ret = TRUE
  /\ (call.fn = "should_process_file" /\ ~exists(fs, call.arg))
     => call.ret = TRUE

\* the last-run string is malformed and the directory was never modified
C14_Witness ==
  /\ call.fn = "should_process_directory"
  /\ Malformed \in last_run
  /\ DirExists(call.arg)
  /\ dmtime[call.arg] = 0
  /\ call.ret = TRUE

\* the name has a last dot with at least one character after it
WithExtension(name) ==
  LastIndex(name, ".") > 0 /\ LastIndex(name, ".") < Len(name)

\* the positions k at which stem ends in a space, "(", one or more digits and
\* ")" that starts at k
CounterStarts(stem) ==
  { k \in 1..Len(stem) :
      /\ k + 3 <= Len(stem)
      /\ stem[k] = " "
      /\ stem[k + 1] = "("
      /\ stem[Len(stem)] = ")"
      /\ \A i \in (k + 2)..(Len(stem) - 1) : stem[i] \in Digits }

\* what the claim says clean_filename gives for a name with an extension
Resolved(name, digest) ==
  LET d    == LastIndex(name, ".")
      stem == SubSeq(name, 1, d - 1)
      ext  == SubSeq(name, d + 1, Len(name))
      base == IF CounterStarts(stem) = {}
              THEN stem
              ELSE SubSeq(stem, 1, MaxOf(CounterStarts(stem)) - 1)
  IN  base \o <<"_">> \o SubSeq(digest, 1, 5) \o <<".">> \o ext

\* C15: for a file name with an extension and a digest, clean_filename removes
\* a counter suffix (a space, a decimal number in parentheses) only where it
\* stands right before the last extension, puts "_" and the first 5
\* characters of the digest before the extension and keeps the extension;
\* ("IMG_0001 (2).jpg", "abcdef0123") gives "IMG_0001_abcde.jpg".
C15_NameResolution ==
  /\ clean_filename(<<"I", "M", "G", "_", "0", "0", "0", "1", " ", "(", "2", ")",
                      ".", "j", "p", "g">>,
                    <<"a", "b", "c", "d", "e", "f", "0", "1", "2", "3">>)
       = <<"I", "M", "G", "_", "0", "0", "0", "1", "_", "a", "b", "c", "d", "e",
           ".", "j", "p", "g">>
  /\ (call.fn = "clean_filename" /\ WithExtension(call.arg[1])) =>
        call.ret = Resolved(call.arg[1], call.arg[2])

\* the counter before the extension is removed
C15_Witness ==
  /\ call.fn = "clean_filename"
  /\ call.arg = << <<"a", " ", "(", "2", ")", ".", "a">>,
                  <<"a", "b", "c", "d", "e", "f", "0", "1", "2", "3">> >>
  /\ call.ret = <<"a", "_", "a", "b", "c", "d", "e", ".", "a">>

\* the entry at source path p, or the rows recorded for it, change in a step
Changes(p) ==
  \/ (p \in DOMAIN fs) # (p \in DOMAIN fs')
  \/ p \in DOMAIN fs /\ p \in DOMAIN fs' /\ fs'[p] # fs[p]
  \/ \E r \in db' \ db : r.file_path = p

\* C16: a step of process_files changes the entry and the rows of no source
\* path but the file it is processing, and a file it starts to process (the
\* one it hashes) is a regular file, no link, that passes should_process_file
\* and lies below a target folder that was entered, in a user directory that
\* was entered.
C16_Frame ==
  [][ \/ Arrive
      \/ BumpDir
      \/ /\ \A p \in DOMAIN fs \cup DOMAIN fs' :
              (IsSource(p) /\ Changes(p)) => (p = file_path \/ p = file_path')
         /\ (\E r \in db' \ db : TRUE) => (\E r \in db' \ db : r.file_path = file_path)
         /\ (file_path' # file_path /\ file_path' # <<>>) =>
              /\ file_path' \in DOMAIN fs
              /\ fs[file_path'].kind = "file"
              /\ Size(fs[file_path'].content) >= min_file_size
              /\ NoSkipPattern(Name(file_path'))
              /\ file_hash' = calculate_md5(fs[file_path'].content)
              /\ Under(file_path', Join(user_dir, target_folders[ti]))
              /\ \A t \in last_run :
                   /\ dmtime[user_dir] > t
                   /\ dmtime[Join(user_dir, target_folders[ti])] > t ]_vars

\* the first run processed a file; the second run is over and has left its
\* link as it was, and has left alone a file of a user directory it did not
\* enter
C16_Witness ==
  /\ pc = "done"
  /\ runs = 2
  /\ last_run # {}
  /\ \E q \in DOMAIN fs : IsSource(q) /\ fs[q].kind = "link"
  /\ \E p \in DOMAIN fs : \E u \in UserDirs(wechat_path) :
       /\ Under(p, u)
       /\ fs[p].kind = "file"
       /\ Size(fs[p].content) >= min_file_size
       /\ p \notin done
       /\ \A r \in db : r.file_path # p
       /\ \E t \in last_run : dmtime[u] <= t

\* target folder j of user directory u exists and, when there is a last-run
\* timestamp, the mtimes of u and of the folder are both after it
Fresh(u, j) ==
  /\ DirExists(Join(u, target_folders[j]))
  /\ \A t \in last_run :
       dmtime[u] > t /\ dmtime[Join(u, target_folders[j])] > t

\* everything below target folder j of user directory u, at any depth
Below(u, j) == { p \in DOMAIN fs : Under(p, Join(u, target_folders[j])) }

\* C17: a run visits the files below a target folder, at any depth, exactly
\* when the folder exists and, if there is a last-run timestamp, the user
\* directory's own mtime and the target folder's own mtime are both strictly
\* after it; no other mtime is consulted.
C17_ShallowCheck ==
  [][ \/ Arrive
      \/ BumpDir
      \/ /\ (pc = "users" /\ user_dirs' # user_dirs) =>
              \A u \in user_dirs \ user_dirs' :
                 IF pc' = "files"
                 THEN /\ user_dir' = u
                      /\ Fresh(u, ti')
                      /\ \A j \in 1..(ti' - 1) : ~Fresh(u, j)
                      /\ todo' = Below(u, ti')
                 ELSE \A j \in 1..Len(target_folders) : ~Fresh(u, j)
         /\ (pc = "files" /\ todo = {} /\ pc' \in {"files", "users"}) =>
              IF pc' = "files"
              THEN /\ ti' > ti
                   /\ Fresh(user_dir, ti')
                   /\ \A j \in (ti + 1)..(ti' - 1) : ~Fresh(user_dir, j)
                   /\ todo' = Below(user_dir, ti')
              ELSE \A j \in (ti + 1)..Len(target_folders) : ~Fresh(user_dir, j) ]_vars

\* the second run is over and has left alone a file of a nested directory
\* that was modified after the last run, below a target folder that was not
C17_Witness ==
  /\ pc = "done"
  /\ runs = 2
  /\ \E p \in DOMAIN fs : \E t \in last_run :
       /\ IsSource(p)
       /\ Parent(p) # TargetOf(p)
       /\ fs[p].kind = "file"
       /\ Size(fs[p].content) >= min_file_size
       /\ p \notin done
       /\ dmtime[Parent(p)] > t
       /\ dmtime[TargetOf(p)] <= t

\* C20: an eligible file that arrives directly in a target folder during a
\* run, after the folder has been scanned and before update_last_run records
\* the timestamp, and still lies there with the folder otherwise unchanged
\* when the next run is over, has been processed by that run.
C20_NoMissedArrivals ==
  \A a \in late :
     ( /\ pc = "done"
       /\ runs = a[2] + 1
       /\ prev_ok
       /\ a[1] \in DOMAIN fs
       /\ fs[a[1]].kind = "file"
       /\ Size(fs[a[1]].content) >= min_file_size
       /\ NoSkipPattern(Name(a[1]))
       /\ \E t \in last_run : t > fs[a[1]].mtime
       /\ dmtime[Parent(a[1])] = fs[a[1]].mtime )
     => a[1] \in done

\* nothing lies at source path p and no run is about to link it
Gone(p) ==
  /\ p \notin DOMAIN fs
  /\ ~(pc \in {"relink", "symlink"} /\ file_path = p)

\* C18: in non-preserve mode, a crash after the original has left its source
\* path (moved to storage, or unlinked) and before the link is made leaves
\* nothing at that path and no index row for it, and nothing is ever put
\* there again.
C18_CrashWindow ==
  [][ \A p \in DOMAIN orig :
        /\ ( /\ ~preserve_originals
             /\ pc \in {"relink", "symlink"}
             /\ file_path = p
             /\ p \notin DOMAIN fs
             /\ pc' = "stopped" )
           => (Gone(p)' /\ \A r \in db' : r.file_path # p)
        /\ Gone(p) => (Gone(p)' /\ \A r \in db' : r.file_path # p) ]_vars

\* a run after the crash is over and the path is still empty
C18_Witness ==
  /\ ~preserve_originals
  /\ pc = "done"
  /\ runs = 2
  /\ \E p \in DOMAIN orig :
       /\ Size(orig[p].content) >= min_file_size
       /\ Gone(p)
       /\ \E o \in StorageObjects : fs[o].content = orig[p].content

\* C19: in non-preserve mode, at every step, the bytes every source file had
\* before the first run are the content of some regular file on disk.
C19_NoContentLoss ==
  ~preserve_originals =>
     \A p \in DOMAIN orig :
        \E q \in DOMAIN fs :
           fs[q].kind = "file" /\ fs[q].content = orig[p].content

\* C19 as amended: the same, when no two source files of different content
\* are given the same storage path.
C19_NoContentLossNoClash == C19_NoContentLoss \/ ~NoNameClash

\* two files of different content have been moved to storage and linked, one
\* run was cut short
C19_Witness ==
  /\ NoNameClash
  /\ ~preserve_originals
  /\ pc = "stopped"
  /\ \E p \in Processed : \E q \in DOMAIN orig :
       /\ orig[p].content # orig[q].content
       /\ Size(orig[q].content) >= min_file_size
       /\ q \notin DOMAIN fs

====
